---- MODULE Spec2Model ----
(***************************************************************************)
(* Analysis Session State Machine of the Prodscope backend                *)
(* (backend/src/api/main.py): the process-wide session dictionary, the    *)
(* start / status / results handlers and the six-step background runner   *)
(* run_six_layer_analysis, scheduled on one asyncio event loop.           *)
(*                                                                         *)
(* Time is the wall clock in whole seconds (int(time.time())), assumed    *)
(* not to run backwards.  Session dictionaries are heap objects: the      *)
(* store maps an analysis id to a reference, and a runner keeps the       *)
(* reference it read when it began, as the Python code does.              *)
(*                                                                         *)
(* Event loop: handlers and runner steps are atomic between awaits; tasks *)
(* created by create_task first run in creation order; all sleeps last    *)
(* SleepSeconds, so timers fire in the order the sleeps began (sched); a  *)
(* runnable task is resumed within the second in which it became          *)
(* runnable.  A fault is an Exception raised inside the loop body of the  *)
(* runner, at any moment of a step.                                       *)
(***************************************************************************)
EXTENDS Integers, Sequences, FiniteSets, TLC

\* ------------------------------------------------------- program constants
NumSteps == 6       \* len(steps)
SleepSeconds == 3   \* await asyncio.sleep(3)
SecondsPerStep == 30
None == -1          \* dict.get() of a missing key

\* ---------------------------------------------------------------- bounds
MaxStarts == 2      \* number of start calls explored
MaxStartTime == 1   \* start calls arrive while the clock is in 0..MaxStartTime
MaxFaults == 1      \* number of runners in which a fault is raised
\* last clock value explored: the latest session has completed by then
MaxTime == MaxStartTime + NumSteps * SleepSeconds


Queries == {"q1", "q2"}
\* ids a reader may ask for: every id a start call can return (a reader that
\* asks before that start call, or when no start call took that second, asks
\* for an unknown id)
Ids == 0..MaxStartTime

\* steps: the six layer titles, in order
steps ==
  <<"market_trend_visual", "weakness_supply_chain", "demand_innovation",
    "seasonal_pricing", "feature_pain_point", "brand_competition">>

VARIABLES
  now,                \* wall clock, whole seconds
  analysis_sessions,  \* the global dict: analysis id -> reference of its session dict
  heap,               \* reference -> session dict (a function over its present keys)
  runners,            \* k-th created background task -> its local state
  sched,              \* event-loop order: runners by creation / current sleep start
  resp                \* the response of the handler call that has just returned

vars == <<now, analysis_sessions, heap, runners, sched, resp>>

\* no handler call has just returned
NoResponse == [op |-> "none"]

\* ----------------------------------------------- provider orchestration state
\* (backend/src/services/llm_service.py and backend/src/llm/llm_manager.py)
VARIABLES
  environ,            \* os.environ: variable name -> value ("" when unset)
  ctor_fails,         \* providers whose client constructor raises (package missing, bad argument)
  providers,          \* LLMService.providers: registered name -> client
  svc,                \* the LLMService call that has just returned
  config,             \* LLMManager.config
  development_mode,   \* LLMManager.development_mode
  llm_cache,          \* LLMManager.llm_cache: cache key -> client
  made,               \* cache key -> number of clients constructed for it so far
  callers,            \* caller thread -> its position inside get_llm
  mgr                 \* the LLMManager call that has just returned

llmVars == <<environ, ctor_fails, providers, svc, config, development_mode,
             llm_cache, made, callers, mgr>>
allVars == <<vars, llmVars>>

\* dict.get(key): the value, or None when the key is missing
Get(d, key) == IF key \in DOMAIN d THEN d[key] ELSE None

\* d[key] = value on a Python dict
Put(d, key, value) == [k \in DOMAIN d \cup {key} |-> IF k = key THEN value ELSE d[k]]

\* analysis_id = f"analysis_{int(time.time())}"
NewAnalysisId(t) == t

\* NewSession with the status word of the start response in the record
NewSession_started(q, t) ==
  [status |-> "started", progress |-> 0, current_step |-> <<"init">>,
   query |-> q, start_time |-> t, insights |-> <<>>]

\* the dict literal stored by start_analysis
NewSession(q, t) ==
  [status |-> "running", progress |-> 0, current_step |-> <<"init">>,
   query |-> q, start_time |-> t, insights |-> <<>>]

\* StepProgress computed from the steps left instead of the steps done
StepProgress_remaining(i) == ((NumSteps - i) * 100) \div NumSteps

\* int((i / len(steps)) * 100)
StepProgress(i) == (i * 100) \div NumSteps

\* (len(steps) - i) * 30
StepRemaining(i) == (NumSteps - i) * SecondsPerStep

\* the three assignments at the top of the loop body, for 0-based index i
BeginStep(s, i) ==
  Put(Put(Put(s, "current_step", <<"running", steps[i + 1]>>),
          "progress", StepProgress(i)),
      "estimated_time_remaining", StepRemaining(i))

\* the insight built after the sleep of step i by the runner of a request with query q
Insight(i, q) ==
  [insight_id |-> i + 1, title |-> steps[i + 1], content |-> <<q, steps[i + 1]>>,
   confidence |-> 85 + i * 2]

\* session["insights"].append(insight)
AppendInsight(s, ins) == Put(s, "insights", Append(s["insights"], ins))

\* the five assignments after the loop
Complete(s, t) ==
  Put(Put(Put(Put(Put(s, "status", "completed"), "progress", 100),
              "current_step", <<"done">>),
          "completion_time", t),
      "total_processing_time", t - s["start_time"])

\* an except branch that only logs and leaves the session as it is
Fail_logOnly(s, msg) == s

\* the except branch
Fail(s, msg) == Put(Put(s, "status", "error"), "error_message", msg)

Remove(seq, r) == SelectSeq(seq, LAMBDA x : x # r)

Before(seq, r) == {seq[j] : j \in {j \in 1..Len(seq) : \A m \in 1..j : seq[m] # r}}


\* ------------------------------------------------------------ environment
\* an environment value is a sequence of text pieces; <<>> is unset or empty
NoValue == <<>>
PlaceholderKey == <<"your_", "api_key_here">>
LiveKey == <<"sk-", "live">>
KeyValues == {NoValue, PlaceholderKey, LiveKey}

\* the API-key variables _initialize_providers reads
ServiceKeyVars ==
  {"OPENAI_API_KEY", "ANTHROPIC_API_KEY", "GOOGLE_API_KEY", "GEMINI_API_KEY",
   "XAI_API_KEY", "DEEPSEEK_API_KEY", "MOONSHOT_API_KEY", "VOLCENGINE_API_KEY"}
EnvVars == ServiceKeyVars \cup {"DEBUG"}

\* os.getenv(name); None and "" are both falsy and are not told apart
GetEnv(name) == environ[name]

\* key.startswith("your_")
StartsWithYour(v) == Len(v) > 0 /\ v[1] = "your_"

\* `key and not key.startswith("your_")`
UsableKey(v) == v # NoValue /\ ~StartsWithYour(v)

\* nothing of the provider layer has been set up or called
NoCall == [op |-> "none"]
IdleCaller == [pc |-> "idle"]
CallerIds == {1, 2}

\* _get_default_config()
DefaultConfig ==
  [providers |-> [google |-> [api_key_env |-> "GOOGLE_API_KEY",
                              models |-> ("gemini-1.5-flash" :>
                                            [cost_per_1k_tokens |-> 5])]],
   task_assignments |-> <<>>,
   settings |-> [retry_attempts |-> 3, timeout_seconds |-> 60,
                 fallback_enabled |-> TRUE]]

\* the provider layer before it is constructed: nothing registered or cached
LLMIdle ==
  /\ environ = [v \in EnvVars |-> NoValue]
  /\ ctor_fails = {}
  /\ providers = <<>>
  /\ svc = NoCall
  /\ config = DefaultConfig
  /\ development_mode = FALSE
  /\ llm_cache = <<>>
  /\ made = <<>>
  /\ callers = [c \in CallerIds |-> IdleCaller]
  /\ mgr = NoCall

TypeOK ==
  /\ now \in 0..MaxTime
  /\ DOMAIN analysis_sessions \subseteq Ids
  /\ DOMAIN heap = 1..Len(runners)
  /\ Len(runners) <= MaxStarts

Init ==
  /\ now = 0
  /\ analysis_sessions = <<>>
  /\ heap = <<>>
  /\ runners = <<>>
  /\ sched = <<>>
  /\ resp = NoResponse
  /\ LLMIdle

\* a created task is runnable at once, a sleeping one when its timer is due
Runnable(r) == runners[r].pc \in {"ready", "sleeping"} /\ now >= runners[r].wake

\* the wall clock advances by one second; the event loop is not blocked, so
\* every runnable task has been resumed before the second is over.  The clock
\* is followed only while a start call or a timer is still to come.
Tick ==
  /\ now < MaxTime
  /\ \A r \in 1..Len(runners) : ~Runnable(r)
  /\ \/ \E r \in 1..Len(runners) : runners[r].pc = "sleeping"
     \/ Len(runners) < MaxStarts /\ now < MaxStartTime
  /\ now' = now + 1
  /\ resp' = NoResponse
  /\ UNCHANGED <<analysis_sessions, heap, runners, sched>>
  /\ UNCHANGED llmVars

\* queries are opaque to the code (only copied), so they are named in order of
\* first use: a start call passes a query used before or the next unused one
QueryChoices ==
  LET used == {runners[r].query : r \in 1..Len(runners)}
  IN used \cup (IF "q1" \in used THEN {"q2"} ELSE {"q1"})

\* a start call that keeps only the newest session in the store
start_analysis_evicting(q) ==
  /\ Len(runners) < MaxStarts
  /\ now <= MaxStartTime
  /\ q \in QueryChoices
  /\ LET analysis_id == NewAnalysisId(now)
         ref == Len(runners) + 1
     IN /\ heap' = Put(heap, ref, NewSession(q, now))
        /\ analysis_sessions' = (analysis_id :> ref)
        /\ runners' = Append(runners,
                        [pc |-> "ready", analysis_id |-> analysis_id, query |-> q,
                         session |-> 0, i |-> 0, wake |-> now])
        /\ sched' = Append(sched, ref)
        /\ resp' = [op |-> "start", code |-> 200, analysis_id |-> analysis_id,
                    status |-> "started"]
  /\ UNCHANGED now
  /\ UNCHANGED llmVars

\* POST /api/analysis/start
start_analysis(q) ==
  /\ Len(runners) < MaxStarts
  /\ now <= MaxStartTime
  /\ q \in QueryChoices
  /\ LET analysis_id == NewAnalysisId(now)
         ref == Len(runners) + 1
     IN /\ heap' = Put(heap, ref, NewSession(q, now))
        /\ analysis_sessions' = Put(analysis_sessions, analysis_id, ref)
        /\ runners' = Append(runners,
                        [pc |-> "ready", analysis_id |-> analysis_id, query |-> q,
                         session |-> 0, i |-> 0, wake |-> now])
        /\ sched' = Append(sched, ref)
        /\ resp' = [op |-> "start", code |-> 200, analysis_id |-> analysis_id,
                    status |-> "started"]
  /\ UNCHANGED now
  /\ UNCHANGED llmVars

\* the created task runs for the first time: binds session, enters the loop
\* with i = 0 and suspends in asyncio.sleep
RunnerBegin(r) ==
  /\ r \in 1..Len(runners)
  /\ runners[r].pc = "ready"
  /\ \A o \in Before(sched, r) : runners[o].pc # "ready"
  /\ LET session == analysis_sessions[runners[r].analysis_id]
     IN /\ heap' = [heap EXCEPT ![session] = BeginStep(@, 0)]
        /\ runners' = [runners EXCEPT ![r] =
                         [@ EXCEPT !.pc = "sleeping", !.session = session,
                                   !.i = 0, !.wake = now + SleepSeconds]]
  /\ sched' = Append(Remove(sched, r), r)
  /\ resp' = NoResponse
  /\ UNCHANGED <<now, analysis_sessions>>
  /\ UNCHANGED llmVars

\* the sleep of step i is over: append the insight, then either begin step
\* i + 1 and sleep again, or leave the loop and complete
RunnerStep(r) ==
  /\ sched # <<>> /\ r = Head(sched)
  /\ runners[r].pc = "sleeping"
  /\ now >= runners[r].wake
  /\ LET session == runners[r].session
         i == runners[r].i
         s1 == AppendInsight(heap[session], Insight(i, runners[r].query))
     IN IF i + 1 < NumSteps
        THEN /\ heap' = [heap EXCEPT ![session] = BeginStep(s1, i + 1)]
             /\ runners' = [runners EXCEPT ![r] =
                              [@ EXCEPT !.i = i + 1, !.wake = now + SleepSeconds]]
             /\ sched' = Append(Tail(sched), r)
        ELSE /\ heap' = [heap EXCEPT ![session] = Complete(s1, now)]
             /\ runners' = [runners EXCEPT ![r] = [@ EXCEPT !.pc = "done"]]
             /\ sched' = Tail(sched)
  /\ resp' = NoResponse
  /\ UNCHANGED <<now, analysis_sessions>>
  /\ UNCHANGED llmVars

\* an Exception is raised inside the loop body of step i (thrown into the
\* suspended coroutine, or raised while the insight is built)
RunnerFault(r) ==
  /\ r \in 1..Len(runners)
  /\ runners[r].pc = "sleeping"
  /\ Cardinality({o \in 1..Len(runners) : runners[o].pc = "failed"}) < MaxFaults
  /\ heap' = [heap EXCEPT ![runners[r].session] = Fail(@, "fault")]
  /\ runners' = [runners EXCEPT ![r] = [@ EXCEPT !.pc = "failed"]]
  /\ sched' = Remove(sched, r)
  /\ resp' = NoResponse
  /\ UNCHANGED <<now, analysis_sessions>>
  /\ UNCHANGED llmVars

\* what GET /api/analysis/{id}/status returns
StatusResponse(analysis_id) ==
  IF analysis_id \notin DOMAIN analysis_sessions
  THEN [op |-> "status", code |-> 404, analysis_id |-> analysis_id]
  ELSE LET session == heap[analysis_sessions[analysis_id]]
       IN [op |-> "status", code |-> 200, analysis_id |-> analysis_id,
           status |-> session["status"], progress |-> session["progress"],
           current_step |-> session["current_step"],
           estimated_time_remaining |-> Get(session, "estimated_time_remaining")]

\* ResultsResponse answering not-ready (400) for an id that is not in the store
ResultsResponse_unknownNotReady(analysis_id) ==
  IF analysis_id \notin DOMAIN analysis_sessions
  THEN [op |-> "results", code |-> 400, analysis_id |-> analysis_id]
  ELSE LET session == heap[analysis_sessions[analysis_id]]
       IN IF session["status"] # "completed"
          THEN [op |-> "results", code |-> 400, analysis_id |-> analysis_id]
          ELSE [op |-> "results", code |-> 200, analysis_id |-> analysis_id,
                query |-> session["query"], insights |-> session["insights"],
                completion_time |-> Get(session, "completion_time"),
                total_processing_time |-> Get(session, "total_processing_time")]

\* ResultsResponse refusing only a running session, so an error session is served
ResultsResponse_onlyRunningRefused(analysis_id) ==
  IF analysis_id \notin DOMAIN analysis_sessions
  THEN [op |-> "results", code |-> 404, analysis_id |-> analysis_id]
  ELSE LET session == heap[analysis_sessions[analysis_id]]
       IN IF session["status"] = "running"
          THEN [op |-> "results", code |-> 400, analysis_id |-> analysis_id]
          ELSE [op |-> "results", code |-> 200, analysis_id |-> analysis_id,
                query |-> session["query"], insights |-> session["insights"],
                completion_time |-> Get(session, "completion_time"),
                total_processing_time |-> Get(session, "total_processing_time")]

\* what GET /api/analysis/{id}/results returns
ResultsResponse(analysis_id) ==
  IF analysis_id \notin DOMAIN analysis_sessions
  THEN [op |-> "results", code |-> 404, analysis_id |-> analysis_id]
  ELSE LET session == heap[analysis_sessions[analysis_id]]
       IN IF session["status"] # "completed"
          THEN [op |-> "results", code |-> 400, analysis_id |-> analysis_id]
          ELSE [op |-> "results", code |-> 200, analysis_id |-> analysis_id,
                query |-> session["query"], insights |-> session["insights"],
                completion_time |-> Get(session, "completion_time"),
                total_processing_time |-> Get(session, "total_processing_time")]

\* get_analysis_status reading the estimate with session.setdefault(key, None),
\* which stores the key when it is missing
get_analysis_status_setdefault(analysis_id) ==
  /\ resp' = StatusResponse(analysis_id)
  /\ heap' = IF analysis_id \in DOMAIN analysis_sessions
             THEN [heap EXCEPT ![analysis_sessions[analysis_id]] =
                     Put(@, "estimated_time_remaining",
                         Get(@, "estimated_time_remaining"))]
             ELSE heap
  /\ UNCHANGED <<now, analysis_sessions, runners, sched>>
  /\ UNCHANGED llmVars

\* GET /api/analysis/{analysis_id}/status
get_analysis_status(analysis_id) ==
  /\ resp' = StatusResponse(analysis_id)
  /\ UNCHANGED <<now, analysis_sessions, heap, runners, sched>>
  /\ UNCHANGED llmVars

\* GET /api/analysis/{analysis_id}/results
get_analysis_results(analysis_id) ==
  /\ resp' = ResultsResponse(analysis_id)
  /\ UNCHANGED <<now, analysis_sessions, heap, runners, sched>>
  /\ UNCHANGED llmVars

\* -------------------------------------------------------------- observers
\* the session dict a reader finds under an id
Session(id) == heap[analysis_sessions[id]]
ObsStatus(id) == Session(id)["status"]
ObsProgress(id) == Session(id)["progress"]

\* the ids start calls have returned, one per call, in call order
ReturnedIds == [r \in 1..Len(runners) |-> runners[r].analysis_id]

InsightIds(s) == [k \in 1..Len(s["insights"]) |-> s["insights"][k].insight_id]

\* C1: under every id the observable status only moves running -> completed
\* or running -> error, and a terminal status never changes again
C1_StatusForwardOnly ==
  [][\A id \in DOMAIN analysis_sessions :
       \/ ObsStatus(id)' = ObsStatus(id)
       \/ ObsStatus(id) = "running" /\ ObsStatus(id)' \in {"completed", "error"}]_vars

\* C2: two start calls return two distinct ids
C2_DistinctIds ==
  \A r1, r2 \in 1..Len(runners) : r1 # r2 => ReturnedIds[r1] # ReturnedIds[r2]

\* C3: the progress a status poll returns for an id never decreases: polls
\* may be issued in any state, so the polled sequence is non-decreasing
\* exactly when no step lowers the value a poll would return
C3_ProgressMonotonic ==
  [][\A id \in DOMAIN analysis_sessions :
       StatusResponse(id)'.progress >= StatusResponse(id).progress]_vars

\* C3 witness: two runners write the same session dict and a poll has
\* returned a progress above 0 for it
C3_Witness ==
  /\ resp.op = "status" /\ resp.code = 200 /\ resp.progress >= 50
  /\ \E r1, r2 \in 1..Len(runners) :
       /\ r1 # r2
       /\ runners[r1].pc = "sleeping" /\ runners[r2].pc = "sleeping"
       /\ runners[r1].session = runners[r2].session
       /\ analysis_sessions[resp.analysis_id] = runners[r1].session

\* C4: a session's progress is 100 exactly when its status is completed
C4_HundredIffCompleted ==
  \A id \in DOMAIN analysis_sessions :
    (ObsProgress(id) = 100) <=> (ObsStatus(id) = "completed")

\* C5: after a fault in step i the runner's session is in error with the
\* message recorded, progress at the value of step i and exactly i insights
C5_FaultFreezes ==
  \A r \in 1..Len(runners) :
    runners[r].pc = "failed" =>
      LET s == heap[runners[r].session]
      IN /\ s["status"] = "error"
         /\ Get(s, "error_message") = "fault"
         /\ s["progress"] = StepProgress(runners[r].i)
         /\ Len(s["insights"]) = runners[r].i

\* C6: after a runner finished its six steps without fault its session is
\* completed with progress 100 and insights 1..6, and results(id) returns
\* them with the query of the start call
C6_CompletedSixInsights ==
  \A r \in 1..Len(runners) :
    runners[r].pc = "done" =>
      LET s == heap[runners[r].session]
          res == ResultsResponse(runners[r].analysis_id)
      IN /\ s["status"] = "completed"
         /\ s["progress"] = 100
         /\ InsightIds(s) = <<1, 2, 3, 4, 5, 6>>
         /\ res.code = 200
         /\ res.insights = s["insights"]
         /\ res.query = runners[r].query

\* C7: when start returns, the runner it scheduled has not run, a status
\* poll of the returned id gives running with progress 0, and the stored
\* insight list is empty
C7_StartReturnsFresh ==
  resp.op = "start" =>
    /\ runners[Len(runners)].pc = "ready"
    /\ runners[Len(runners)].analysis_id = resp.analysis_id
    /\ StatusResponse(resp.analysis_id).code = 200
    /\ StatusResponse(resp.analysis_id).status = "running"
    /\ StatusResponse(resp.analysis_id).progress = 0
    /\ Session(resp.analysis_id)["insights"] = <<>>

\* C7 witness: a start call has just returned while the runner of an earlier
\* start call is in its loop
C7_Witness ==
  /\ resp.op = "start"
  /\ Len(runners) = 2
  /\ runners[1].pc = "sleeping"

\* C8: a reader fails with 404 exactly for an id no start call returned, and
\* status succeeds for every returned id
C8_NotFoundIffUnknown ==
  resp.op \in {"status", "results"} =>
    LET known == \E r \in 1..Len(runners) : ReturnedIds[r] = resp.analysis_id
    IN /\ (resp.code = 404) <=> ~known
       /\ (resp.op = "status" /\ known) => resp.code = 200

\* C8 witness: a status call for an unknown id has failed while the store
\* holds a session in error under another id
C8_Witness ==
  /\ resp.op = "status" /\ resp.code = 404
  /\ \E id \in DOMAIN analysis_sessions : ObsStatus(id) = "error"

C10_ReadersFrame ==
  [][(\E id \in Ids : get_analysis_status(id) \/ get_analysis_results(id))
       => UNCHANGED <<analysis_sessions, heap>>]_vars

\* C10 witness: a status call has answered for a session whose dict has no
\* estimated_time_remaining key yet, and the key is still missing
C10_Witness ==
  /\ resp.op = "status" /\ resp.code = 200
  /\ resp.estimated_time_remaining = None
  /\ "estimated_time_remaining" \notin DOMAIN Session(resp.analysis_id)

\* C32: every id a start call has returned is in the store in every later
\* state, a status call for it answers 200, and a status call that has just
\* returned for such an id did not fail with 404
C32_NeverEvicted ==
  /\ \A r \in 1..Len(runners) :
       /\ ReturnedIds[r] \in DOMAIN analysis_sessions
       /\ StatusResponse(ReturnedIds[r]).code = 200
  /\ (resp.op = "status"
        /\ \E r \in 1..Len(runners) : ReturnedIds[r] = resp.analysis_id)
       => resp.code # 404

\* C32 witness: after a later start under another id and after its own
\* runner has ended, a status call for the first id has answered
C32_Witness ==
  /\ Len(runners) = 2
  /\ ReturnedIds[1] # ReturnedIds[2]
  /\ runners[1].pc \in {"done", "failed"}
  /\ resp.op = "status" /\ resp.code = 200
  /\ resp.analysis_id = ReturnedIds[1]

Next ==
  \/ Tick
  \/ \E q \in Queries : start_analysis(q)
  \/ \E r \in 1..MaxStarts : RunnerBegin(r)
  \/ \E r \in 1..MaxStarts : RunnerStep(r)
  \/ \E r \in 1..MaxStarts : RunnerFault(r)
  \/ \E id \in Ids : get_analysis_status(id)
  \/ \E id \in Ids : get_analysis_results(id)

Spec == Init /\ [][Next]_vars

\* the event loop runs every task that can run and the clock goes on: weak
\* fairness of the clock and of the runner's steps; nothing is assumed of
\* the callers of the handlers or of faults
FairSpec ==
  /\ Spec
  /\ WF_vars(Tick)
  /\ \A r \in 1..MaxStarts : WF_vars(RunnerBegin(r)) /\ WF_vars(RunnerStep(r))

\* a runner that will still write the session dict found under id
LiveRunnerOf(id) ==
  \E r \in 1..Len(runners) :
    \/ runners[r].pc = "ready" /\ runners[r].analysis_id = id
    \/ runners[r].pc = "sleeping" /\ runners[r].session = analysis_sessions[id]

\* C26: under a fair scheduler every session in the store eventually shows a
\* terminal status, and a session showing running always has a runner that
\* is still at work on it
C26_EventuallyTerminal ==
  \A id \in Ids :
    /\ [](id \in DOMAIN analysis_sessions =>
           <>(id \in DOMAIN analysis_sessions
                /\ ObsStatus(id) \in {"completed", "error"}))
    /\ []((id \in DOMAIN analysis_sessions /\ ObsStatus(id) = "running") =>
           LiveRunnerOf(id))

\* C26 witness: a session has completed after the runner of another start
\* call stopped on a fault
C26_Witness ==
  /\ \E id \in DOMAIN analysis_sessions : ObsStatus(id) = "completed"
  /\ \E r \in 1..Len(runners) : runners[r].pc = "failed"

\* C28: a step of a runner changes no session dict but one, and that one is
\* the dict the start call that scheduled the runner created
C28_OwnRecordOnly ==
  [][\A r \in 1..Len(runners) :
       (RunnerBegin(r) \/ RunnerStep(r) \/ RunnerFault(r)) =>
         /\ runners'[r].session = r
         /\ \A ref \in DOMAIN heap : ref # r => heap'[ref] = heap[ref]]_vars

\* C29: every insight list only grows at its end, and its k-th element
\* always has sequence id k and the title of the k-th step
C29_InsightsAppendOnly ==
  [][\A ref \in DOMAIN heap :
       LET old == heap[ref]["insights"]
           new == heap'[ref]["insights"]
       IN /\ Len(new) >= Len(old)
          /\ Len(new) <= NumSteps
          /\ SubSeq(new, 1, Len(old)) = old
          /\ \A k \in 1..Len(new) :
               new[k].insight_id = k /\ new[k].title = steps[k]]_vars

\* C30: while a runner is in step i a status poll of its id reports progress
\* floor(i * 100 / 6) and (6 - i) * 30 seconds remaining, and no poll
\* reports running with a progress above 83
C30_StepProgressReported ==
  /\ \A r \in 1..Len(runners) :
       runners[r].pc = "sleeping" =>
         LET res == StatusResponse(runners[r].analysis_id)
         IN res.status = "running" =>
              /\ res.progress = (runners[r].i * 100) \div 6
              /\ res.progress \in {0, 16, 33, 50, 66, 83}
              /\ res.estimated_time_remaining = (6 - runners[r].i) * 30
  /\ \A id \in DOMAIN analysis_sessions :
       StatusResponse(id).status = "running" => StatusResponse(id).progress <= 83

\* C34: while a runner is parked in step i and its session is running, the
\* session holds exactly i insights and progress floor(i * 100 / 6); no
\* session is running with six insights
C34_InsightsMatchStep ==
  /\ \A r \in 1..Len(runners) :
       (runners[r].pc = "sleeping"
          /\ heap[runners[r].session]["status"] = "running") =>
         /\ Len(heap[runners[r].session]["insights"]) = runners[r].i
         /\ heap[runners[r].session]["progress"] = (runners[r].i * 100) \div 6
  /\ \A ref \in DOMAIN heap :
       heap[ref]["status"] = "running" => Len(heap[ref]["insights"]) < 6

\* C35: completion_time and total_processing_time are in a session exactly
\* when its status is completed, the total being completion time minus start
\* time and not negative; error_message is there exactly when the status is
\* error
C35_TerminalFields ==
  \A ref \in DOMAIN heap :
    LET s == heap[ref]
    IN /\ ("completion_time" \in DOMAIN s) <=> (s["status"] = "completed")
       /\ ("total_processing_time" \in DOMAIN s) <=> (s["status"] = "completed")
       /\ s["status"] = "completed" =>
            /\ s["total_processing_time"] = s["completion_time"] - s["start_time"]
            /\ s["total_processing_time"] >= 0
       /\ ("error_message" \in DOMAIN s) <=> (s["status"] = "error")

\* C38: a status poll of a started id reports no estimated remaining time
\* until the runner of that start has begun, (6 - i) * 30 while the runner is
\* in step i, the value of the step it failed in after a fault, and 30, not
\* 0, once the session is completed
C38_RemainingTimeStale ==
  \A r \in 1..Len(runners) :
    LET res == StatusResponse(runners[r].analysis_id)
    IN /\ runners[r].pc = "ready" => res.estimated_time_remaining = None
       /\ runners[r].pc \in {"sleeping", "failed"} =>
            /\ res.estimated_time_remaining = (6 - runners[r].i) * 30
            /\ res.estimated_time_remaining \in {180, 150, 120, 90, 60, 30}
       /\ runners[r].pc = "done" =>
            /\ res.status = "completed"
            /\ res.estimated_time_remaining = 30

\* ======================================================================
\* LLMService (backend/src/services/llm_service.py)
\* ======================================================================

\* bound: how many providers are in an unusual condition at start-up (a
\* placeholder key in their variable, or a constructor that raises)
MaxUnusual == 1

\* message[:50]
MockEchoLen == 50

\* the alias given to the first provider in registration order
PrimaryOrder_asRegistered ==
  <<"openai", "anthropic", "google", "xai", "deepseek", "moonshot", "volcengine">>

\* provider names in the priority order of the "primary" alias
PrimaryOrder ==
  <<"deepseek", "moonshot", "volcengine", "xai", "google", "anthropic", "openai">>

\* provider names in the order _initialize_providers registers them
RegistrationOrder ==
  <<"openai", "anthropic", "google", "xai", "deepseek", "moonshot", "volcengine",
    "primary">>

ServiceProviderNames == {PrimaryOrder[k] : k \in 1..Len(PrimaryOrder)}

\* the model each provider is constructed with
ServiceModel ==
  [openai |-> "gpt-4o-mini", anthropic |-> "claude-3-haiku-20240307",
   google |-> "gemini-1.5-flash", xai |-> "grok-2-latest",
   deepseek |-> "deepseek-chat", moonshot |-> "moonshot-v1-8k",
   volcengine |-> "ep-20241212110452-zk2nd"]

\* the key _initialize_providers reads for a provider; google falls back to
\* GEMINI_API_KEY when GOOGLE_API_KEY is unset or empty
ServiceKey(p) ==
  CASE p = "openai" -> GetEnv("OPENAI_API_KEY")
    [] p = "anthropic" -> GetEnv("ANTHROPIC_API_KEY")
    [] p = "google" -> IF GetEnv("GOOGLE_API_KEY") = NoValue
                       THEN GetEnv("GEMINI_API_KEY")
                       ELSE GetEnv("GOOGLE_API_KEY")
    [] p = "xai" -> GetEnv("XAI_API_KEY")
    [] p = "deepseek" -> GetEnv("DEEPSEEK_API_KEY")
    [] p = "moonshot" -> GetEnv("MOONSHOT_API_KEY")
    [] p = "volcengine" -> GetEnv("VOLCENGINE_API_KEY")

\* one `if key and not key.startswith("your_"): try: providers[p] = ...`
Registers(p) == UsableKey(ServiceKey(p)) /\ p \notin ctor_fails

ServiceClient(p) == [provider |-> p, model |-> ServiceModel[p]]

\* first element of an order that is in a set
FirstIn(order, set) ==
  order[CHOOSE k \in 1..Len(order) :
          order[k] \in set /\ \A j \in 1..(k - 1) : order[j] \notin set]

\* _initialize_providers: the registry it leaves in self.providers
InitializeProviders ==
  LET reg == {p \in ServiceProviderNames : Registers(p)}
  IN IF reg = {}
     THEN <<>>
     ELSE [n \in reg \cup {"primary"} |->
             IF n = "primary" THEN ServiceClient(FirstIn(PrimaryOrder, reg))
             ELSE ServiceClient(n)]

\* `piece in message`
Contains(message, piece) == \E k \in 1..Len(message) : message[k] = piece

\* message[:n]
Prefix(message, n) == SubSeq(message, 1, IF Len(message) < n THEN Len(message) ELSE n)

\* _generate_mock_response testing the complaints triggers before the holiday ones
GenerateMockResponse_complaintsFirst(message) ==
  [response |->
     IF Contains(message, "review") \/ Contains(message, "problem")
     THEN <<"complaints">>
     ELSE IF Contains(message, "walmart") \/ Contains(message, "christmas")
          THEN <<"holiday_decor">>
          ELSE <<"generic", Prefix(message, MockEchoLen)>>,
   llm_provider |-> "mock",
   tokens_used |-> <<>>,
   model |-> "mock-model"]

\* _generate_mock_response
GenerateMockResponse(message) ==
  [response |->
     IF Contains(message, "walmart") \/ Contains(message, "christmas")
     THEN <<"holiday_decor">>
     ELSE IF Contains(message, "review") \/ Contains(message, "problem")
          THEN <<"complaints">>
          ELSE <<"generic", Prefix(message, MockEchoLen)>>,
   llm_provider |-> "mock",
   tokens_used |-> <<>>,
   model |-> "mock-model"]

\* SelectProvider without the final else branch: a name is always selected
SelectProvider_noEmptyBranch(provider) ==
  IF provider # "" /\ provider \in DOMAIN providers
  THEN [found |-> TRUE, llm |-> providers[provider], llm_name |-> provider]
  ELSE [found |-> TRUE, llm |-> ServiceClient("openai"), llm_name |-> "primary"]

\* a selection that reports the provider behind the alias instead of the
\* alias "primary"
SelectProvider_resolvedName(provider) ==
  IF provider # "" /\ provider \in DOMAIN providers
  THEN [found |-> TRUE, llm |-> providers[provider], llm_name |-> provider]
  ELSE IF "primary" \in DOMAIN providers
       THEN [found |-> TRUE, llm |-> providers["primary"],
             llm_name |-> providers["primary"].provider]
       ELSE IF DOMAIN providers # {}
            THEN LET first == FirstIn(RegistrationOrder, DOMAIN providers)
                 IN [found |-> TRUE, llm |-> providers[first], llm_name |-> first]
            ELSE [found |-> FALSE]

\* the provider selection at the top of chat; provider "" is None
SelectProvider(provider) ==
  IF provider # "" /\ provider \in DOMAIN providers
  THEN [found |-> TRUE, llm |-> providers[provider], llm_name |-> provider]
  ELSE IF "primary" \in DOMAIN providers
       THEN [found |-> TRUE, llm |-> providers["primary"], llm_name |-> "primary"]
       ELSE IF DOMAIN providers # {}
            THEN LET first == FirstIn(RegistrationOrder, DOMAIN providers)
                 IN [found |-> TRUE, llm |-> providers[first], llm_name |-> first]
            ELSE [found |-> FALSE]

\* the messages list chat builds; system_prompt "" is None
BuildMessages(message, system_prompt) ==
  IF system_prompt # "" THEN <<<<"system", system_prompt>>, <<"human", message>>>>
  ELSE <<<<"human", message>>>>

\* how the provider's ainvoke can end
Outcomes == {"ok", "raises", "malformed"}

\* Chat that invokes the "primary" client when the selected client failed
Chat_retryPrimary(message, system_prompt, provider, outcome) ==
  LET sel == SelectProvider(provider)
  IN IF ~sel.found
     THEN [ret |-> GenerateMockResponse(message), invoked |-> <<>>, raised |-> FALSE]
     ELSE IF outcome = "ok"
          THEN [ret |-> [response |-> <<"reply", sel.llm.provider,
                                        BuildMessages(message, system_prompt)>>,
                         llm_provider |-> sel.llm_name,
                         tokens_used |-> <<"token_usage">>,
                         model |-> sel.llm.model],
                invoked |-> <<sel.llm.provider>>, raised |-> FALSE]
          ELSE [ret |-> [response |-> <<"reply", providers["primary"].provider,
                                        BuildMessages(message, system_prompt)>>,
                         llm_provider |-> "primary",
                         tokens_used |-> <<"token_usage">>,
                         model |-> providers["primary"].model],
                invoked |-> <<sel.llm.provider, providers["primary"].provider>>,
                raised |-> FALSE]

\* Chat whose try block ends after ainvoke, so reading a malformed response
\* raises to the caller
Chat_parseOutsideTry(message, system_prompt, provider, outcome) ==
  LET sel == SelectProvider(provider)
  IN IF ~sel.found
     THEN [ret |-> GenerateMockResponse(message), invoked |-> <<>>, raised |-> FALSE]
     ELSE IF outcome = "ok"
          THEN [ret |-> [response |-> <<"reply", sel.llm.provider,
                                        BuildMessages(message, system_prompt)>>,
                         llm_provider |-> sel.llm_name,
                         tokens_used |-> <<"token_usage">>,
                         model |-> sel.llm.model],
                invoked |-> <<sel.llm.provider>>, raised |-> FALSE]
          ELSE IF outcome = "raises"
               THEN [ret |-> GenerateMockResponse(message),
                     invoked |-> <<sel.llm.provider>>, raised |-> FALSE]
               ELSE [ret |-> <<>>, invoked |-> <<sel.llm.provider>>, raised |-> TRUE]

\* the body of chat: what it returns, which clients it invoked, and whether an
\* exception leaves it.  ainvoke ends as `outcome`: "ok" returns a response,
\* "raises" raises, "malformed" returns an object without the fields read.
Chat(message, system_prompt, provider, outcome) ==
  LET sel == SelectProvider(provider)
  IN IF ~sel.found
     THEN [ret |-> GenerateMockResponse(message), invoked |-> <<>>, raised |-> FALSE]
     ELSE IF outcome = "ok"
          THEN [ret |-> [response |-> <<"reply", sel.llm.provider,
                                        BuildMessages(message, system_prompt)>>,
                         llm_provider |-> sel.llm_name,
                         tokens_used |-> <<"token_usage">>,
                         model |-> sel.llm.model],
                invoked |-> <<sel.llm.provider>>, raised |-> FALSE]
          ELSE [ret |-> GenerateMockResponse(message),
                invoked |-> <<sel.llm.provider>>, raised |-> FALSE]

\* a mapping whose default branch names a fixed provider instead of "primary"
PreferredLLM_defaultOpenAI(task_type) ==
  CASE task_type = "market_trends" -> "google"
    [] task_type = "sentiment_analysis" -> "anthropic"
    [] task_type = "innovation" -> "openai"
    [] task_type = "report_generation" -> "anthropic"
    [] task_type = "data_analysis" -> "primary"
    [] OTHER -> "openai"

\* task_llm_mapping.get(task_type, "primary")
PreferredLLM(task_type) ==
  CASE task_type = "market_trends" -> "google"
    [] task_type = "sentiment_analysis" -> "anthropic"
    [] task_type = "innovation" -> "openai"
    [] task_type = "report_generation" -> "anthropic"
    [] task_type = "data_analysis" -> "primary"
    [] OTHER -> "primary"

\* _get_task_specific_prompt
TaskPrompt(task_type) ==
  IF task_type \in {"market_trends", "sentiment_analysis", "innovation",
                    "report_generation", "data_analysis"}
  THEN task_type ELSE "product_analysis"

\* inputs
Messages ==
  {<<"hello">>, <<"christmas", "review">>, <<"problem">>, <<"walmart">>}
SystemPrompts == {"", "assistant"}
ProviderArgs == {"", "primary", "google", "grok"}
TaskTypes ==
  {"market_trends", "sentiment_analysis", "innovation", "report_generation",
   "data_analysis", "pricing"}

\* await llm_service.chat(message, system_prompt, provider)
chat(message, system_prompt, provider, outcome) ==
  /\ svc = NoCall
  /\ svc' = [op |-> "chat", message |-> message, system_prompt |-> system_prompt,
             provider |-> provider, outcome |-> outcome]
            @@ Chat(message, system_prompt, provider, outcome)
  /\ UNCHANGED <<environ, ctor_fails, providers, config, development_mode,
                 llm_cache, made, callers, mgr>>
  /\ UNCHANGED vars

\* await llm_service.analyze_with_best_llm(task_type, content)
analyze_with_best_llm(task_type, content, outcome) ==
  /\ svc = NoCall
  /\ svc' = [op |-> "analyze", task_type |-> task_type, message |-> content,
             system_prompt |-> TaskPrompt(task_type),
             provider |-> PreferredLLM(task_type), outcome |-> outcome]
            @@ Chat(content, TaskPrompt(task_type), PreferredLLM(task_type), outcome)
  /\ UNCHANGED <<environ, ctor_fails, providers, config, development_mode,
                 llm_cache, made, callers, mgr>>
  /\ UNCHANGED vars

\* the caller of the service has taken the response
TakeResponse ==
  /\ svc # NoCall
  /\ svc' = NoCall
  /\ UNCHANGED <<environ, ctor_fails, providers, config, development_mode,
                 llm_cache, made, callers, mgr>>
  /\ UNCHANGED vars

\* the environments the service is constructed in; GEMINI_API_KEY varies only
\* where it is read (GOOGLE_API_KEY unset or empty)
ServiceEnvironments ==
  {e \in [EnvVars -> KeyValues] :
     /\ e["DEBUG"] = NoValue
     /\ e["GOOGLE_API_KEY"] # NoValue => e["GEMINI_API_KEY"] = NoValue}

\* llm_service = LLMService(): the registry is built from the environment
ServiceInit ==
  /\ now = 0 /\ analysis_sessions = <<>> /\ heap = <<>> /\ runners = <<>>
  /\ sched = <<>> /\ resp = NoResponse
  /\ environ \in ServiceEnvironments
  /\ ctor_fails \in SUBSET {p \in ServiceProviderNames : UsableKey(ServiceKey(p))}
  /\ Cardinality({v \in EnvVars : environ[v] = PlaceholderKey})
       + Cardinality(ctor_fails) <= MaxUnusual
  /\ providers = InitializeProviders
  /\ svc = NoCall
  /\ config = DefaultConfig
  /\ development_mode = FALSE
  /\ llm_cache = <<>>
  /\ made = <<>>
  /\ callers = [c \in CallerIds |-> IdleCaller]
  /\ mgr = NoCall

ServiceNext ==
  \/ TakeResponse
  \/ \E m \in Messages, sp \in SystemPrompts, p \in ProviderArgs, o \in Outcomes :
       chat(m, sp, p, o)
  \/ \E t \in TaskTypes, m \in Messages, o \in Outcomes :
       analyze_with_best_llm(t, m, o)

ServiceSpec == ServiceInit /\ [][ServiceNext]_allVars

\* ---------------------------------------------------------------- C11..C14
ServiceCalled == svc.op \in {"chat", "analyze"}

\* the call selected a registered client and its invocation did not return a
\* usable response
InvocationFailed == ServiceCalled /\ DOMAIN providers # {} /\ svc.outcome # "ok"

\* a task whose mapped provider P is registered and differs from the provider
\* F behind the "primary" alias: primary P and fallback F are both available
HasPrimaryAndFallback ==
  /\ svc.op = "analyze"
  /\ svc.provider \in DOMAIN providers
  /\ svc.provider # "primary"
  /\ providers["primary"].provider # svc.provider

C12_NeverRaises ==
  ServiceCalled =>
    /\ ~svc.raised
    /\ DOMAIN svc.ret = {"response", "llm_provider", "tokens_used", "model"}

C12_Witness ==
  /\ svc.op = "chat"
  /\ svc.provider = "grok"
  /\ DOMAIN providers # {}
  /\ svc.outcome = "malformed"
  /\ ~svc.raised

\* C13: with an empty registry every call returns the mock response and
\* invokes no client
C13_EmptyRegistryMock ==
  (ServiceCalled /\ DOMAIN providers = {}) =>
    /\ svc.ret.llm_provider = "mock"
    /\ svc.invoked = <<>>
    /\ ~svc.raised

C13_Witness ==
  /\ svc.op = "chat"
  /\ DOMAIN providers = {}
  /\ svc.provider = "google"
  /\ environ["GOOGLE_API_KEY"] = PlaceholderKey
  /\ svc.ret.llm_provider = "mock"

HolidayTrigger(m) == \E k \in 1..Len(m) : m[k] \in {"walmart", "christmas"}
ComplaintTrigger(m) == \E k \in 1..Len(m) : m[k] \in {"review", "problem"}

\* C14: a mock response is determined by the message alone, with the template
\* chosen holiday first, complaints second, generic last
C14_MockByMessage ==
  (ServiceCalled /\ svc.ret.llm_provider = "mock") =>
    /\ svc.ret.tokens_used = <<>>
    /\ svc.ret.model = "mock-model"
    /\ HolidayTrigger(svc.message) => svc.ret.response = <<"holiday_decor">>
    /\ (~HolidayTrigger(svc.message) /\ ComplaintTrigger(svc.message)) =>
         svc.ret.response = <<"complaints">>
    /\ (~HolidayTrigger(svc.message) /\ ~ComplaintTrigger(svc.message)) =>
         svc.ret.response = <<"generic", svc.message>>

C14_Witness ==
  /\ ServiceCalled
  /\ HolidayTrigger(svc.message) /\ ComplaintTrigger(svc.message)
  /\ DOMAIN providers # {}
  /\ svc.ret.response = <<"holiday_decor">>

\* ---------------------------------------------------------------- C33
\* the task types the mapping table names with a provider of their own
MappedProvider ==
  [market_trends |-> "google", sentiment_analysis |-> "anthropic",
   innovation |-> "openai", report_generation |-> "anthropic"]

\* C33: analyze_with_best_llm never raises; with an empty registry it returns
\* the mock without invoking anything; otherwise it invokes the provider the
\* table maps the task type to when that provider is registered, and the
\* provider behind "primary" for every other task type
C33_TaskDispatchTotal ==
  svc.op = "analyze" =>
    /\ ~svc.raised
    /\ DOMAIN providers = {} =>
         /\ svc.invoked = <<>>
         /\ svc.ret.llm_provider = "mock"
    /\ DOMAIN providers # {} =>
         svc.invoked =
           <<IF /\ svc.task_type \in DOMAIN MappedProvider
                /\ MappedProvider[svc.task_type] \in DOMAIN providers
             THEN MappedProvider[svc.task_type]
             ELSE providers["primary"].provider>>

\* C33 witness: an unrecognised task type and a recognised one whose provider
\* is not registered are both served by the provider behind "primary", which
\* is not the one a registered mapping would have named
C33_Witness ==
  /\ svc.op = "analyze"
  /\ svc.task_type \in {"pricing", "sentiment_analysis"}
  /\ "anthropic" \notin DOMAIN providers
  /\ "openai" \in DOMAIN providers /\ "google" \in DOMAIN providers
  /\ svc.outcome = "ok"
  /\ svc.invoked = <<"google">>
  /\ svc.ret.llm_provider = "primary"

\* ---------------------------------------------------------------- C36
\* C36: the llm_provider tag of a response is "mock" exactly when no provider
\* is registered or the invocation of the selected one did not give a usable
\* response; otherwise it is the requested name when that name is registered
\* and "primary" when the request named no provider or an unregistered one
C36_ProviderTag ==
  ServiceCalled =>
    /\ svc.ret.llm_provider = "mock" <=>
         (DOMAIN providers = {} \/ svc.outcome # "ok")
    /\ svc.ret.llm_provider # "mock" =>
         svc.ret.llm_provider =
           IF svc.provider # "" /\ svc.provider \in DOMAIN providers
           THEN svc.provider
           ELSE "primary"

\* C36 witness: a chat naming an unregistered provider is answered by a live
\* provider under the tag "primary"
C36_Witness ==
  /\ svc.op = "chat"
  /\ svc.provider = "grok"
  /\ "google" \in DOMAIN providers /\ "deepseek" \notin DOMAIN providers
  /\ svc.outcome = "ok"
  /\ svc.ret.llm_provider = "primary"
  /\ svc.invoked = <<providers["primary"].provider>>

\* ---------------------------------------------------------------- C37
\* C37: in every state of the service the registry holds exactly the providers
\* whose construction succeeded at initialization, plus, when there is one,
\* the alias "primary" for the first of them in the order deepseek, moonshot,
\* volcengine, xai, google, anthropic, openai; so a call that selects a
\* client selects the requested one or the alias, never "the first registered"
C37_PrimaryAliasInvariant ==
  LET order == <<"deepseek", "moonshot", "volcengine", "xai", "google",
                 "anthropic", "openai">>
      names == DOMAIN providers \ {"primary"}
  IN /\ names = {p \in ServiceProviderNames : Registers(p)}
     /\ names = {} => providers = <<>>
     /\ names # {} =>
          /\ "primary" \in DOMAIN providers
          /\ \E k \in 1..Len(order) :
               /\ order[k] \in names
               /\ \A j \in 1..(k - 1) : order[j] \notin names
               /\ providers["primary"] = providers[order[k]]
               /\ providers["primary"].provider = order[k]
     /\ \A p \in ProviderArgs :
          SelectProvider(p).found =>
            /\ SelectProvider(p).llm_name \in {p, "primary"}
            /\ SelectProvider(p).llm = providers[SelectProvider(p).llm_name]

\* C37 witness: after a call, with three providers registered and the first
\* two of the order missing, the alias names the third of them
C37_Witness ==
  /\ ServiceCalled
  /\ DOMAIN providers = {"openai", "google", "xai", "primary"}
  /\ providers["primary"].provider = "xai"
  /\ svc.invoked = <<"xai">>

\* ------------------------------------------------------------- LLMManager
\* get_llm returning None
Absent == <<>>

\* the providers _create_llm knows, and the variable each reads its key from
ManagerProviders == {"google", "openai", "anthropic", "xai"}
ManagerKeyVar(provider) ==
  CASE provider = "google" -> "GOOGLE_API_KEY"
    [] provider = "openai" -> "OPENAI_API_KEY"
    [] provider = "anthropic" -> "ANTHROPIC_API_KEY"
    [] provider = "xai" -> "XAI_API_KEY"

\* cache_key = f"{provider}:{model}" for names that hold no colon
CacheKey(provider, model) == <<provider, ":", model>>

\* the (provider, model) pairs asked for
DefaultPair == <<"google", "gemini-1.5-flash">>
PrimaryPair == <<"openai", "gpt-4o-mini">>
UnsupportedPair == <<"deepseek", "deepseek-chat">>
FallbackPair == <<"anthropic", "claude-3-haiku">>
OverridePair == <<"xai", "grok-beta">>
UnpricedPair == <<"openai", "gpt-4o">>
Pairs == {DefaultPair, PrimaryPair, UnsupportedPair, FallbackPair, OverridePair,
          UnpricedPair}
CacheKeys == {CacheKey(pm[1], pm[2]) : pm \in Pairs}

\* `if not api_key` is false: the key is neither None nor ""
HasKey(provider) == GetEnv(ManagerKeyVar(provider)) # NoValue

\* _create_llm: the client built as the serial-th one of its key, or None
CreateLLM(provider, model, serial) ==
  IF provider \notin ManagerProviders
  THEN Absent
  ELSE IF ~HasKey(provider)
       THEN Absent
       ELSE IF provider \in ctor_fails
            THEN Absent
            ELSE <<provider, model, serial>>

\* get_llm that stores whatever _create_llm returned, None included
GetLLM_cachesFailure(cache, mk, provider, model) ==
  LET k == CacheKey(provider, model)
  IN IF k \notin DOMAIN cache
     THEN LET llm == CreateLLM(provider, model, mk[k] + 1)
          IN [cache |-> (k :> llm) @@ cache,
              made |-> IF llm # Absent THEN [mk EXCEPT ![k] = @ + 1] ELSE mk,
              ret |-> llm]
     ELSE [cache |-> cache, made |-> mk, ret |-> cache[k]]

\* get_llm that serves a cached client only while its key is still set
GetLLM_recheckKey(cache, mk, provider, model) ==
  LET k == CacheKey(provider, model)
  IN IF k \notin DOMAIN cache \/ CreateLLM(provider, model, 0) = Absent
     THEN LET llm == CreateLLM(provider, model, mk[k] + 1)
          IN IF llm # Absent
             THEN [cache |-> (k :> llm) @@ cache,
                   made |-> [mk EXCEPT ![k] = @ + 1],
                   ret |-> llm]
             ELSE [cache |-> cache, made |-> mk, ret |-> Absent]
     ELSE [cache |-> cache, made |-> mk, ret |-> cache[k]]

\* get_llm run without interruption on cache `cache` with construction counts
\* `mk`: the cache and counts it leaves and the value it returns
GetLLM(cache, mk, provider, model) ==
  LET k == CacheKey(provider, model)
  IN IF k \notin DOMAIN cache
     THEN LET llm == CreateLLM(provider, model, mk[k] + 1)
          IN IF llm # Absent
             THEN [cache |-> (k :> llm) @@ cache,
                   made |-> [mk EXCEPT ![k] = @ + 1],
                   ret |-> llm]
             ELSE [cache |-> cache, made |-> mk, ret |-> Absent]
     ELSE [cache |-> cache, made |-> mk, ret |-> cache[k]]

\* no call of the manager has returned yet; `absent` keeps the keys for which
\* some get_llm has returned None
NoGet == [op |-> "none", absent |-> {}]

\* the pairs and variables the sequential get_llm calls range over
GetPairs == {DefaultPair, PrimaryPair, UnsupportedPair}
GetKeyVars == {"GOOGLE_API_KEY", "OPENAI_API_KEY"}

\* manager.get_llm(provider, model), not overlapping any other call
get_llm(provider, model) ==
  LET r == GetLLM(llm_cache, made, provider, model)
      k == CacheKey(provider, model)
  IN /\ llm_cache' = r.cache
     /\ made' = r.made
     /\ mgr' = [op |-> "get", provider |-> provider, model |-> model,
                ret |-> r.ret, before |-> llm_cache,
                failed_before |-> k \in mgr.absent,
                absent |-> IF r.ret = Absent THEN mgr.absent \cup {k}
                           ELSE mgr.absent]
     /\ UNCHANGED <<environ, ctor_fails, providers, svc, config,
                    development_mode, callers>>
     /\ UNCHANGED vars

\* the operator sets, changes or removes a credential between two calls
SetEnv(var, value) ==
  /\ environ[var] # value
  /\ environ' = [environ EXCEPT ![var] = value]
  /\ mgr' = [op |-> "none", absent |-> mgr.absent]
  /\ UNCHANGED <<ctor_fails, providers, svc, config, development_mode,
                 llm_cache, made, callers>>
  /\ UNCHANGED vars

\* d.get(k, default) of a mapping
GetOr(d, k, default) == IF k \in DOMAIN d THEN d[k] ELSE default

\* list_available_providers(): per configured provider its model names (as a
\* set), has_api_key = bool(os.getenv(api_key_env)) and the status string
ListAvailableProviders ==
  LET entries == GetOr(config, "providers", <<>>)
  IN [p \in DOMAIN entries |->
        LET has_key == IF "api_key_env" \in DOMAIN entries[p]
                       THEN GetEnv(entries[p].api_key_env) # NoValue
                       ELSE FALSE
        IN [models |-> DOMAIN GetOr(entries[p], "models", <<>>),
            has_api_key |-> has_key,
            status |-> IF has_key THEN "available" ELSE "missing_api_key"]]

\* manager.list_available_providers(), between two get_llm calls
list_available_providers ==
  /\ mgr' = [op |-> "list", ret |-> ListAvailableProviders,
             absent |-> mgr.absent]
  /\ UNCHANGED <<environ, ctor_fails, providers, svc, config,
                 development_mode, llm_cache, made, callers>>
  /\ UNCHANGED vars

\* LLMManager() with the built-in configuration and an empty cache
GetInit ==
  /\ now = 0 /\ analysis_sessions = <<>> /\ heap = <<>> /\ runners = <<>>
  /\ sched = <<>> /\ resp = NoResponse
  /\ environ \in {e \in [EnvVars -> KeyValues] :
                    \A v \in EnvVars \ GetKeyVars : e[v] = NoValue}
  /\ ctor_fails \in SUBSET {"google", "openai"}
  /\ Cardinality(ctor_fails) <= MaxUnusual
  /\ providers = <<>>
  /\ svc = NoCall
  /\ config = DefaultConfig
  /\ development_mode = FALSE
  /\ llm_cache = <<>>
  /\ made = [k \in CacheKeys |-> 0]
  /\ callers = [c \in CallerIds |-> IdleCaller]
  /\ mgr = NoGet

GetNext ==
  \/ \E pm \in GetPairs : get_llm(pm[1], pm[2])
  \/ \E var \in GetKeyVars, value \in KeyValues : SetEnv(var, value)
  \/ list_available_providers

GetSpec == GetInit /\ [][GetNext]_allVars

\* the key of the get_llm call that has just returned
GetKey == CacheKey(mgr.provider, mgr.model)

\* C15: a get_llm that returns None leaves llm_cache as it was, and a later
\* get_llm of the same key made once the client can be built returns a client
\* and caches it
C15_AbsentNotCached ==
  mgr.op = "get" =>
    /\ mgr.ret = Absent => llm_cache = mgr.before
    /\ (mgr.failed_before /\ CreateLLM(mgr.provider, mgr.model, 1) # Absent) =>
         /\ mgr.ret # Absent
         /\ GetKey \in DOMAIN llm_cache
         /\ llm_cache[GetKey] = mgr.ret

C15_Witness ==
  /\ mgr.op = "get"
  /\ mgr.failed_before
  /\ mgr.ret # Absent
  /\ GetKey \notin DOMAIN mgr.before

\* C16: over non-overlapping get_llm calls at most one client is built per
\* key, and a call that finds its key cached returns the cached instance and
\* builds nothing, whether or not the credential is still set
C16_OneClientPerKey ==
  /\ \A k \in CacheKeys : made[k] <= 1
  /\ (mgr.op = "get" /\ GetKey \in DOMAIN mgr.before) =>
       /\ mgr.ret = mgr.before[GetKey]
       /\ mgr.ret # Absent
       /\ llm_cache = mgr.before

C16_Witness ==
  /\ mgr.op = "get"
  /\ GetKey \in DOMAIN mgr.before
  /\ ~HasKey(mgr.provider)
  /\ mgr.ret = <<mgr.provider, mgr.model, 1>>

\* C25: the manager treats a provider whose credential is empty or a
\* placeholder as not configured: get_llm builds and caches no client for it
\* and list_available_providers reports it as missing its key
C25_PlaceholderNotConfigured ==
  /\ (mgr.op = "get" /\ mgr.provider \in ManagerProviders
        /\ ~UsableKey(GetEnv(ManagerKeyVar(mgr.provider)))
        /\ GetKey \notin DOMAIN mgr.before) =>
       /\ mgr.ret = Absent
       /\ GetKey \notin DOMAIN llm_cache
  /\ mgr.op = "list" =>
       \A p \in DOMAIN mgr.ret :
         ~UsableKey(GetEnv(config.providers[p].api_key_env)) =>
           /\ ~mgr.ret[p].has_api_key
           /\ mgr.ret[p].status = "missing_api_key"

\* --------------------------------------------- get_llm, two callers at once
\* the membership test of get_llm that also leaves a placeholder for the key
\* it found missing
CheckCache_reserve(cache, k) ==
  [miss |-> k \notin DOMAIN cache,
   cache |-> IF k \in DOMAIN cache THEN cache ELSE (k :> Absent) @@ cache]

\* `if cache_key not in self.llm_cache`: the outcome of the test and the cache
\* it leaves
CheckCache(cache, k) == [miss |-> k \notin DOMAIN cache, cache |-> cache]

\* the key a caller's call is about
CallerKey(c) == CacheKey(callers[c].provider, callers[c].model)

\* a caller enters get_llm(provider, model); `first` notes that the key was
\* not cached when the call was made
get_llm_begin(c, provider, model) ==
  /\ callers[c].pc = "idle"
  /\ callers' = [callers EXCEPT ![c] =
       [pc |-> "check", provider |-> provider, model |-> model,
        first |-> CacheKey(provider, model) \notin DOMAIN llm_cache,
        missed |-> FALSE, llm |-> Absent, ret |-> Absent, raised |-> FALSE]]
  /\ UNCHANGED <<environ, ctor_fails, providers, svc, config, development_mode,
                 llm_cache, made, mgr>>
  /\ UNCHANGED vars

\* if cache_key not in self.llm_cache
get_llm_check(c) ==
  /\ callers[c].pc = "check"
  /\ LET r == CheckCache(llm_cache, CallerKey(c))
     IN /\ llm_cache' = r.cache
        /\ callers' = [callers EXCEPT ![c].missed = r.miss,
                                      ![c].pc = IF r.miss THEN "construct"
                                                ELSE "read"]
  /\ UNCHANGED <<environ, ctor_fails, providers, svc, config, development_mode,
                 made, mgr>>
  /\ UNCHANGED vars

\* llm = self._create_llm(provider, model); a None is returned at once
get_llm_construct(c) ==
  /\ callers[c].pc = "construct"
  /\ LET k == CallerKey(c)
         llm == CreateLLM(callers[c].provider, callers[c].model, made[k] + 1)
     IN /\ made' = IF llm # Absent THEN [made EXCEPT ![k] = @ + 1] ELSE made
        /\ callers' = [callers EXCEPT ![c].llm = llm,
                                      ![c].pc = IF llm # Absent THEN "store"
                                                ELSE "done"]
  /\ UNCHANGED <<environ, ctor_fails, providers, svc, config, development_mode,
                 llm_cache, mgr>>
  /\ UNCHANGED vars

\* self.llm_cache[cache_key] = llm
get_llm_store(c) ==
  /\ callers[c].pc = "store"
  /\ llm_cache' = (CallerKey(c) :> callers[c].llm) @@ llm_cache
  /\ callers' = [callers EXCEPT ![c].pc = "read"]
  /\ UNCHANGED <<environ, ctor_fails, providers, svc, config, development_mode,
                 made, mgr>>
  /\ UNCHANGED vars

\* return self.llm_cache[cache_key]; a missing key is a KeyError
get_llm_read(c) ==
  /\ callers[c].pc = "read"
  /\ callers' = [callers EXCEPT
       ![c].pc = "done",
       ![c].raised = CallerKey(c) \notin DOMAIN llm_cache,
       ![c].ret = IF CallerKey(c) \in DOMAIN llm_cache
                  THEN llm_cache[CallerKey(c)] ELSE Absent]
  /\ UNCHANGED <<environ, ctor_fails, providers, svc, config, development_mode,
                 llm_cache, made, mgr>>
  /\ UNCHANGED vars

\* the caller takes the returned value and may call again
get_llm_end(c) ==
  /\ callers[c].pc = "done"
  /\ callers' = [callers EXCEPT ![c] = IdleCaller]
  /\ UNCHANGED <<environ, ctor_fails, providers, svc, config, development_mode,
                 llm_cache, made, mgr>>
  /\ UNCHANGED vars

\* the pairs the concurrent callers ask for
RacePairs == {DefaultPair, UnsupportedPair}

\* LLMManager() shared by two threads
RaceInit ==
  /\ now = 0 /\ analysis_sessions = <<>> /\ heap = <<>> /\ runners = <<>>
  /\ sched = <<>> /\ resp = NoResponse
  /\ environ \in {e \in [EnvVars -> KeyValues] :
                    \A v \in EnvVars \ {"GOOGLE_API_KEY"} : e[v] = NoValue}
  /\ ctor_fails \in SUBSET {"google"}
  /\ Cardinality(ctor_fails) <= MaxUnusual
  /\ providers = <<>>
  /\ svc = NoCall
  /\ config = DefaultConfig
  /\ development_mode = FALSE
  /\ llm_cache = <<>>
  /\ made = [k \in CacheKeys |-> 0]
  /\ callers = [c \in CallerIds |-> IdleCaller]
  /\ mgr = NoCall

RaceNext ==
  \E c \in CallerIds :
    \/ \E pm \in RacePairs : get_llm_begin(c, pm[1], pm[2])
    \/ get_llm_check(c)
    \/ get_llm_construct(c)
    \/ get_llm_store(c)
    \/ get_llm_read(c)
    \/ get_llm_end(c)

RaceSpec == RaceInit /\ [][RaceNext]_allVars

\* two calls of the same key, both made before the key was cached, have
\* both returned
BothFirstDone(c1, c2) ==
  /\ c1 # c2
  /\ callers[c1].pc = "done" /\ callers[c2].pc = "done"
  /\ CallerKey(c1) = CallerKey(c2)
  /\ callers[c1].first /\ callers[c2].first

\* C17: two concurrent first lookups of one key whose client can be built
\* both return a client, neither raises, and the cache then holds one client
\* for the key, under every interleaving of their steps
C17_RaceBothServed ==
  \A c1, c2 \in CallerIds :
    (BothFirstDone(c1, c2)
       /\ CreateLLM(callers[c1].provider, callers[c1].model, 1) # Absent) =>
      /\ callers[c1].ret # Absent /\ callers[c2].ret # Absent
      /\ ~callers[c1].raised /\ ~callers[c2].raised
      /\ CallerKey(c1) \in DOMAIN llm_cache
      /\ llm_cache[CallerKey(c1)] \in {callers[c1].llm, callers[c2].llm} \ {Absent}

C17_Witness ==
  /\ BothFirstDone(1, 2)
  /\ callers[1].missed /\ callers[2].missed
  /\ callers[1].ret # Absent /\ callers[2].ret # Absent
  /\ callers[1].ret # callers[2].ret
  /\ made[CallerKey(1)] = 2

\* ------------------------------------------------------ get_llm_for_task
\* a mapping is truthy when it has a key
NonEmpty(d) == DOMAIN d # {}

\* str.lower() on the values DEBUG takes
Lower(v) == [i \in 1..Len(v) |-> IF v[i] \in {"TRUE", "True"} THEN "true" ELSE v[i]]

\* os.getenv("DEBUG", "false").lower() == "true"
DevelopmentMode(env) ==
  Lower(IF env["DEBUG"] = NoValue THEN <<"false">> ELSE env["DEBUG"]) = <<"true">>

\* one get_llm call made in the course of a resolution: r carries the cache,
\* the construction counts and the pairs asked for so far
Try(r, provider, model) ==
  LET g == GetLLM(r.cache, r.made, provider, model)
  IN [cache |-> g.cache, made |-> g.made, ret |-> g.ret,
      tried |-> Append(r.tried, <<provider, model>>)]

\* _get_default_llm naming the primary's pair instead of the default one
GetDefaultLLM_wrongPair(r) == Try(r, PrimaryPair[1], PrimaryPair[2])

\* _get_default_llm
GetDefaultLLM(r) == Try(r, "google", "gemini-1.5-flash")

\* the assignment branch without its last line: None when primary and
\* fallback gave nothing
AssignedLLM_noLastResort(assignment, r) ==
  LET primary == GetOr(assignment, "primary", <<>>)
      r1 == IF NonEmpty(primary) THEN Try(r, primary.provider, primary.model)
            ELSE r
  IN IF r1.ret # Absent
     THEN r1
     ELSE LET fallback == GetOr(assignment, "fallback", <<>>)
              r2 == IF GetOr(GetOr(config, "settings", <<>>), "fallback_enabled", TRUE)
                       /\ NonEmpty(fallback)
                    THEN Try(r1, fallback.provider, fallback.model)
                    ELSE r1
          IN r2

\* the assignment branch asking for the fallback whatever
\* settings.fallback_enabled says
AssignedLLM_ignoresSetting(assignment, r) ==
  LET primary == GetOr(assignment, "primary", <<>>)
      r1 == IF NonEmpty(primary) THEN Try(r, primary.provider, primary.model)
            ELSE r
  IN IF r1.ret # Absent
     THEN r1
     ELSE LET fallback == GetOr(assignment, "fallback", <<>>)
              r2 == IF NonEmpty(fallback)
                    THEN Try(r1, fallback.provider, fallback.model)
                    ELSE r1
          IN IF r2.ret # Absent THEN r2 ELSE GetDefaultLLM(r2)

\* get_llm_for_task from "Try primary LLM" on, for a non-empty assignment
AssignedLLM(assignment, r) ==
  LET primary == GetOr(assignment, "primary", <<>>)
      r1 == IF NonEmpty(primary) THEN Try(r, primary.provider, primary.model)
            ELSE r
  IN IF r1.ret # Absent
     THEN r1
     ELSE LET fallback == GetOr(assignment, "fallback", <<>>)
              r2 == IF GetOr(GetOr(config, "settings", <<>>), "fallback_enabled", TRUE)
                       /\ NonEmpty(fallback)
                    THEN Try(r1, fallback.provider, fallback.model)
                    ELSE r1
          IN IF r2.ret # Absent THEN r2 ELSE GetDefaultLLM(r2)

\* get_llm_for_task that goes on to the assignment when the override target
\* gave no client
GetLLMForTask_overrideFallsThrough(task) ==
  LET r0 == [cache |-> llm_cache, made |-> made, ret |-> Absent, tried |-> <<>>]
      override == GetOr(GetOr(config, "development", <<>>), "override_all_to", <<>>)
      ro == IF development_mode /\ NonEmpty(override)
            THEN Try(r0, override.provider, override.model)
            ELSE r0
      assignment == GetOr(GetOr(config, "task_assignments", <<>>), task, <<>>)
  IN IF ro.ret # Absent
     THEN ro
     ELSE IF ~NonEmpty(assignment)
          THEN GetDefaultLLM(ro)
          ELSE AssignedLLM(assignment, ro)

\* get_llm_for_task: the cache and counts it leaves, the client it returns and
\* the pairs it asked get_llm for, in order
GetLLMForTask(task) ==
  LET r0 == [cache |-> llm_cache, made |-> made, ret |-> Absent, tried |-> <<>>]
      override == GetOr(GetOr(config, "development", <<>>), "override_all_to", <<>>)
      assignment == GetOr(GetOr(config, "task_assignments", <<>>), task, <<>>)
  IN IF development_mode /\ NonEmpty(override)
     THEN Try(r0, override.provider, override.model)
     ELSE IF ~NonEmpty(assignment)
          THEN GetDefaultLLM(r0)
          ELSE AssignedLLM(assignment, r0)

\* a value that is not a dict (None, a list) carries its type under __class__
IsMapping(v) == "__class__" \notin DOMAIN v

\* a {provider, model} entry has both keys
WellFormed(entry) == {"provider", "model"} \subseteq DOMAIN entry

\* get_llm_for_task raises before it has asked for any client: self.config
\* has no .get (AttributeError), or the first entry it subscripts lacks
\* "provider" or "model" (KeyError)
TaskRaises(task) ==
  \/ ~IsMapping(config)
  \/ LET override == GetOr(GetOr(config, "development", <<>>), "override_all_to", <<>>)
         assignment == GetOr(GetOr(config, "task_assignments", <<>>), task, <<>>)
         primary == GetOr(assignment, "primary", <<>>)
     IN IF development_mode /\ NonEmpty(override)
        THEN ~WellFormed(override)
        ELSE NonEmpty(assignment) /\ NonEmpty(primary) /\ ~WellFormed(primary)

\* manager.get_llm_for_task(task)
get_llm_for_task(task) ==
  LET r == IF TaskRaises(task)
           THEN [cache |-> llm_cache, made |-> made, ret |-> Absent, tried |-> <<>>]
           ELSE GetLLMForTask(task)
  IN /\ llm_cache' = r.cache
     /\ made' = r.made
     /\ mgr' = [op |-> "task", task |-> task, ret |-> r.ret, tried |-> r.tried,
                before |-> llm_cache, raised |-> TaskRaises(task)]
     /\ UNCHANGED <<environ, ctor_fails, providers, svc, config,
                    development_mode, callers>>
     /\ UNCHANGED vars

\* {"provider": ..., "model": ...}
PairEntry(pm) == [provider |-> pm[1], model |-> pm[2]]

\* the task types asked for; only the first is ever given an assignment
Tasks == {"trend_analysis", "keyword_extraction"}

\* the shapes of the "development" section
Developments ==
  {<<>>,
   [development |-> [enabled |-> TRUE]],
   [development |-> [override_all_to |-> PairEntry(OverridePair)]]}

\* the shapes of the assignment of trend_analysis
Assignments ==
  {<<>>,
   [trend_analysis |-> [primary |-> PairEntry(PrimaryPair)]],
   [trend_analysis |-> [primary |-> PairEntry(PrimaryPair),
                        fallback |-> PairEntry(FallbackPair)]],
   [trend_analysis |-> [primary |-> PairEntry(UnsupportedPair),
                        fallback |-> PairEntry(FallbackPair)]],
   [trend_analysis |-> [fallback |-> PairEntry(FallbackPair)]]}

\* the shapes of the "settings" section
Settings ==
  {<<>>,
   [settings |-> [fallback_enabled |-> TRUE]],
   [settings |-> [fallback_enabled |-> FALSE]]}

DebugValues == {NoValue, <<"true">>, <<"TRUE">>, <<"false">>}
RouterKeyVars == {ManagerKeyVar(p) : p \in ManagerProviders}

\* LLMManager(config_path) over a parsed configuration document
RouterInit ==
  /\ now = 0 /\ analysis_sessions = <<>> /\ heap = <<>> /\ runners = <<>>
  /\ sched = <<>> /\ resp = NoResponse
  /\ environ \in {e \in [EnvVars -> {NoValue, LiveKey} \cup DebugValues] :
                    /\ e["DEBUG"] \in DebugValues
                    /\ \A v \in RouterKeyVars : e[v] \in {NoValue, LiveKey}
                    /\ \A v \in EnvVars \ (RouterKeyVars \cup {"DEBUG"}) :
                         e[v] = NoValue}
  /\ ctor_fails \in SUBSET {p \in ManagerProviders : HasKey(p)}
  /\ Cardinality(ctor_fails) <= MaxUnusual
  /\ providers = <<>>
  /\ svc = NoCall
  /\ \E d \in Developments, a \in Assignments, st \in Settings :
       config = [providers |-> DefaultConfig.providers, task_assignments |-> a]
                @@ d @@ st
  /\ development_mode = DevelopmentMode(environ)
  /\ llm_cache = <<>>
  /\ made = [k \in CacheKeys |-> 0]
  /\ callers = [c \in CallerIds |-> IdleCaller]
  /\ mgr = NoCall

RouterNext == \E task \in Tasks : get_llm_for_task(task)

RouterSpec == RouterInit /\ [][RouterNext]_allVars

\* ---------------------------------------------------------------- C18..C20
\* what a resolution that has just returned was given
TaskCalled == mgr.op = "task"
Override == GetOr(GetOr(config, "development", <<>>), "override_all_to", <<>>)
Assignment == GetOr(GetOr(config, "task_assignments", <<>>), mgr.task, <<>>)
FallbackUsable ==
  /\ GetOr(GetOr(config, "settings", <<>>), "fallback_enabled", TRUE)
  /\ "fallback" \in DOMAIN Assignment

\* after a resolution, the client of a pair is cached exactly when it was
\* obtained or could have been served
Cached(pm) == CacheKey(pm[1], pm[2]) \in DOMAIN llm_cache
ClientOf(pm) == IF Cached(pm) THEN llm_cache[CacheKey(pm[1], pm[2])] ELSE Absent
PairOf(entry) == <<entry.provider, entry.model>>

\* C18 as claimed: a configured development override alone pins every
\* resolution to the override target
C18_OverrideAlwaysWins ==
  (TaskCalled /\ NonEmpty(Override)) => mgr.tried = <<PairOf(Override)>>

\* C18 amended: in development mode a configured override is the only pair
\* asked for and its client, or None, is the result; outside development mode
\* the override is not consulted
C18_OverrideInDevelopmentMode ==
  (TaskCalled /\ NonEmpty(Override)) =>
    /\ development_mode =>
         /\ mgr.tried = <<PairOf(Override)>>
         /\ mgr.ret = ClientOf(PairOf(Override))
    /\ ~development_mode =>
         \A i \in 1..Len(mgr.tried) : mgr.tried[i] # PairOf(Override)

C18_Witness ==
  /\ TaskCalled
  /\ NonEmpty(Override) /\ development_mode
  /\ NonEmpty(Assignment)
  /\ HasKey("openai") /\ HasKey("google")
  /\ mgr.ret = Absent
  /\ mgr.tried = <<OverridePair>>

\* no override applies to the resolution
NoOverrideInEffect == ~(development_mode /\ NonEmpty(Override))

\* C19 as claimed: with an assignment only primary and usable fallback are
\* asked for; with the primary absent and no usable fallback the result is
\* None and the default is not asked for
C19_NoDefaultForAssigned ==
  (TaskCalled /\ ~NonEmpty(Override) /\ NonEmpty(Assignment)) =>
    /\ \A i \in 1..Len(mgr.tried) : mgr.tried[i] # DefaultPair
    /\ ("primary" \in DOMAIN Assignment /\ ~Cached(PairOf(Assignment.primary))
          /\ ~FallbackUsable) => mgr.ret = Absent

\* the candidates of an assigned task in the order the code asks for them
AssignedCandidates ==
  (IF "primary" \in DOMAIN Assignment THEN <<PairOf(Assignment.primary)>> ELSE <<>>)
  \o (IF FallbackUsable THEN <<PairOf(Assignment.fallback)>> ELSE <<>>)
  \o <<DefaultPair>>

\* C19 amended: with an assignment the pairs asked for are primary, then the
\* usable fallback, then the global default as last resort, in that order,
\* stopping at the first whose client is obtained; that client is the result,
\* and the result is None only when the default's client is absent too
C19_DefaultIsLastResort ==
  (TaskCalled /\ NoOverrideInEffect /\ NonEmpty(Assignment)) =>
    \E n \in 1..Len(AssignedCandidates) :
      /\ mgr.tried = SubSeq(AssignedCandidates, 1, n)
      /\ \A i \in 1..(n - 1) : ~Cached(AssignedCandidates[i])
      /\ n < Len(AssignedCandidates) => Cached(AssignedCandidates[n])
      /\ mgr.ret = ClientOf(AssignedCandidates[n])

C19_Witness ==
  /\ TaskCalled
  /\ ~NonEmpty(Override)
  /\ DOMAIN Assignment = {"primary"}
  /\ ~HasKey("openai")
  /\ mgr.tried = <<PrimaryPair, DefaultPair>>
  /\ mgr.ret = <<"google", "gemini-1.5-flash", 1>>

\* C20: a task without assignment is resolved by asking for the global
\* default pair alone; the result is its client, or None when there is none
C20_UnassignedUsesDefault ==
  (TaskCalled /\ NoOverrideInEffect /\ ~NonEmpty(Assignment)) =>
    /\ mgr.tried = <<DefaultPair>>
    /\ mgr.ret = ClientOf(DefaultPair)
    /\ mgr.ret = Absent <=>
         /\ CacheKey(DefaultPair[1], DefaultPair[2]) \notin DOMAIN mgr.before
         /\ CreateLLM(DefaultPair[1], DefaultPair[2], 1) = Absent

C20_Witness ==
  /\ TaskCalled
  /\ mgr.task = "keyword_extraction"
  /\ NonEmpty(GetOr(config, "task_assignments", <<>>))
  /\ NoOverrideInEffect
  /\ ~HasKey("google") /\ HasKey("openai") /\ HasKey("anthropic")
  /\ mgr.tried = <<DefaultPair>>
  /\ mgr.ret = Absent

\* the client of a pair could be had when the resolution began: it was cached
\* or _create_llm builds it
Obtainable(pm) ==
  \/ CacheKey(pm[1], pm[2]) \in DOMAIN mgr.before
  \/ CreateLLM(pm[1], pm[2], 1) # Absent

MaxTokenSteps == 1
\* token counts are taken in steps of half a thousand, so that sums cross a
\* whole thousand
TokenStep == 500
TokenCounts == {k * TokenStep : k \in 0..MaxTokenSteps}

\* what yaml.safe_load returns for an empty document and for a YAML list
NoneValue == ("__class__" :> "NoneType")
ListValue == ("__class__" :> "list")
EmptyMapping == <<>>

\* the "providers" section of a full document: rates are whole numbers of the
\* smallest currency unit per 1000 tokens
PricedProviders ==
  [google |-> [api_key_env |-> "GOOGLE_API_KEY",
               models |-> ("gemini-1.5-flash" :> [cost_per_1k_tokens |-> 5])],
   openai |-> [api_key_env |-> "OPENAI_API_KEY",
               models |-> ("gpt-4o-mini" :> [cost_per_1k_tokens |-> 15])],
   anthropic |-> [api_key_env |-> "ANTHROPIC_API_KEY",
                  models |-> ("claude-3-haiku" :> [cost_per_1k_tokens |-> 25])],
   xai |-> [api_key_env |-> "XAI_API_KEY",
            models |-> ("grok-beta" :> [cost_per_1k_tokens |-> 50])]]

\* the conditions of the configuration document
DocumentKinds == {"missing", "unparsable", "empty", "list", "no_sections", "full"}

\* the shapes of the assignment of trend_analysis in a full document
EstimateAssignments ==
  {<<>>,
   [trend_analysis |-> [fallback |-> PairEntry(FallbackPair)]],
   [trend_analysis |-> [primary |-> [model |-> PrimaryPair[2]]]],
   [trend_analysis |-> [primary |-> [provider |-> PrimaryPair[1]]]],
   [trend_analysis |-> [primary |-> PairEntry(UnsupportedPair)]],
   [trend_analysis |-> [primary |-> PairEntry(UnpricedPair)]],
   [trend_analysis |-> [primary |-> PairEntry(PrimaryPair)]],
   [trend_analysis |-> [primary |-> PairEntry(PrimaryPair),
                        fallback |-> PairEntry(FallbackPair)]]}

\* _load_config: open() raises FileNotFoundError, safe_load raises YAMLError,
\* or safe_load returns what the document holds
LoadConfig(kind, parsed) ==
  CASE kind = "missing" -> DefaultConfig
    [] kind = "unparsable" -> DefaultConfig
    [] kind = "empty" -> NoneValue
    [] kind = "list" -> ListValue
    [] kind = "no_sections" -> EmptyMapping
    [] kind = "full" -> parsed

\* Price charging every started thousand of tokens in full
Price_perStartedThousand(total_tokens, cost_per_1k) ==
  ((total_tokens + 999) \div 1000) * 1000 * cost_per_1k

\* (total_tokens / 1000) * cost_per_1k with true division, given exactly in
\* thousandths of the currency unit (the float result is this value up to
\* rounding)
Price(total_tokens, cost_per_1k) == total_tokens * cost_per_1k

\* estimate_cost: the value returned, or that the call raised
EstimateCost(task, input_tokens, output_tokens) ==
  IF ~IsMapping(config)
  THEN [ret |-> 0, raised |-> TRUE]
  ELSE LET assignment == GetOr(GetOr(config, "task_assignments", <<>>), task, <<>>)
           primary == GetOr(assignment, "primary", <<>>)
       IN IF ~NonEmpty(primary)
          THEN [ret |-> 0, raised |-> FALSE]
          ELSE IF ~WellFormed(primary)
               THEN [ret |-> 0, raised |-> TRUE]
               ELSE IF /\ "providers" \in DOMAIN config
                       /\ primary.provider \in DOMAIN config.providers
                       /\ "models" \in DOMAIN config.providers[primary.provider]
                       /\ primary.model
                            \in DOMAIN config.providers[primary.provider].models
                       /\ "cost_per_1k_tokens" \in DOMAIN
                            config.providers[primary.provider].models[primary.model]
                    THEN [ret |-> Price(input_tokens + output_tokens,
                                        config.providers[primary.provider]
                                          .models[primary.model].cost_per_1k_tokens),
                          raised |-> FALSE]
                    ELSE [ret |-> 0, raised |-> FALSE]

\* the last two elements of a sequence
LastTwo(seq) == IF Len(seq) <= 2 THEN seq ELSE SubSeq(seq, Len(seq) - 1, Len(seq))

\* manager.estimate_cost(task, input_tokens, output_tokens); `earlier` keeps
\* the two estimates returned just before for the same task
estimate_cost(task, input_tokens, output_tokens) ==
  LET r == EstimateCost(task, input_tokens, output_tokens)
      earlier == IF mgr.op = "estimate" /\ mgr.task = task /\ ~mgr.raised
                 THEN LastTwo(Append(mgr.earlier,
                                     [input_tokens |-> mgr.input_tokens,
                                      output_tokens |-> mgr.output_tokens,
                                      ret |-> mgr.ret]))
                 ELSE <<>>
  IN /\ mgr' = [op |-> "estimate", task |-> task,
                input_tokens |-> input_tokens, output_tokens |-> output_tokens,
                ret |-> r.ret, raised |-> r.raised, earlier |-> earlier]
     /\ UNCHANGED <<environ, ctor_fails, providers, svc, config,
                    development_mode, llm_cache, made, callers>>
     /\ UNCHANGED vars

\* LLMManager(config_path) for every condition of the document
ConfigInit ==
  /\ now = 0 /\ analysis_sessions = <<>> /\ heap = <<>> /\ runners = <<>>
  /\ sched = <<>> /\ resp = NoResponse
  /\ \E debug \in {NoValue, <<"true">>}, key \in {NoValue, LiveKey} :
       environ = [v \in EnvVars |-> IF v = "DEBUG" THEN debug
                                    ELSE IF v \in RouterKeyVars THEN key
                                    ELSE NoValue]
  /\ ctor_fails = {}
  /\ providers = <<>>
  /\ svc = NoCall
  /\ \E kind \in DocumentKinds, d \in Developments, a \in EstimateAssignments :
       /\ kind # "full" => d = <<>> /\ a = <<>>
       /\ config = LoadConfig(kind, [providers |-> PricedProviders,
                                     task_assignments |-> a] @@ d)
       /\ mgr = [op |-> "init", document |-> kind]
  /\ development_mode = DevelopmentMode(environ)
  /\ llm_cache = <<>>
  /\ made = [k \in CacheKeys |-> 0]
  /\ callers = [c \in CallerIds |-> IdleCaller]

ConfigNext ==
  \/ \E task \in Tasks, input_tokens \in TokenCounts, output_tokens \in TokenCounts :
       estimate_cost(task, input_tokens, output_tokens)
  \/ \E task \in Tasks : get_llm_for_task(task)

ConfigSpec == ConfigInit /\ [][ConfigNext]_allVars

\* ---------------------------------------------------------------- C21..C24
EstimateCalled == mgr.op = "estimate"

RateOf(provider, model) ==
  IF /\ "providers" \in DOMAIN config
     /\ provider \in DOMAIN config.providers
     /\ model \in DOMAIN config.providers[provider].models
  THEN config.providers[provider].models[model].cost_per_1k_tokens
  ELSE 0

\* the primary entry of the task of the estimate that has just returned
EstimatePrimary ==
  GetOr(GetOr(GetOr(config, "task_assignments", <<>>), mgr.task, <<>>),
        "primary", <<>>)

\* C22: estimate_cost never raises on a configuration that is a mapping, and
\* returns zero when the task has no primary with a pricing entry
C22_EstimateNeverRaises ==
  (EstimateCalled /\ IsMapping(config)) =>
    /\ ~mgr.raised
    /\ (~WellFormed(EstimatePrimary)
          \/ RateOf(EstimatePrimary.provider, EstimatePrimary.model) = 0)
         => mgr.ret = 0

\* C23: an estimate is priced at the rate of the first candidate of task
\* resolution: the override target when an override is in effect, the
\* task's primary otherwise, and never the fallback
C23_EstimateFollowsRouter ==
  (EstimateCalled /\ ~mgr.raised) =>
    LET first == IF ~NoOverrideInEffect THEN Override ELSE EstimatePrimary
    IN mgr.ret = IF WellFormed(first)
                 THEN (mgr.input_tokens + mgr.output_tokens)
                        * RateOf(first.provider, first.model)
                 ELSE 0

\* C24: whatever the condition of the document, self.config is a mapping, it
\* is the built-in default when the document is missing, unparsable, empty or
\* not a mapping, and no later call fails
C24_ConfigAlwaysUsable ==
  /\ IsMapping(config)
  /\ (mgr.op = "init"
        /\ mgr.document \in {"missing", "unparsable", "empty", "list"})
       => config = DefaultConfig
  /\ mgr.op \in {"task", "estimate"} => ~mgr.raised

\* ------------------------------------------- chat, awaiting the provider
\* the longest a pending invocation is followed, in seconds
MaxWait == 61

\* the provider argument and messages of the calls that are followed in time
AwaitProviderArgs == {"", "google"}
AwaitMessages == {<<"hello">>, <<"problem">>}

\* chat is awaiting `llm.ainvoke(messages)`
Awaiting == svc # NoCall /\ svc.pc = "awaiting"

\* chat up to `response = await llm.ainvoke(messages)`: without a client the
\* mock is returned at once, with one the coroutine suspends on the provider
chat_invoke(message, system_prompt, provider) ==
  /\ svc = NoCall
  /\ svc' = IF SelectProvider(provider).found
            THEN [op |-> "chat", pc |-> "awaiting", message |-> message,
                  system_prompt |-> system_prompt, provider |-> provider,
                  waited |-> 0]
            ELSE [op |-> "chat", pc |-> "returned", message |-> message,
                  system_prompt |-> system_prompt, provider |-> provider,
                  waited |-> 0, outcome |-> "ok"]
                 @@ Chat(message, system_prompt, provider, "ok")
  /\ UNCHANGED <<environ, ctor_fails, providers, config, development_mode,
                 llm_cache, made, callers, mgr>>
  /\ UNCHANGED vars

\* a second passes in which the provider neither answers nor fails; nothing in
\* chat cancels the pending await
SecondPasses ==
  /\ Awaiting
  /\ svc.waited < MaxWait
  /\ svc' = [svc EXCEPT !.waited = @ + 1]
  /\ UNCHANGED <<environ, ctor_fails, providers, config, development_mode,
                 llm_cache, made, callers, mgr>>
  /\ UNCHANGED vars

\* the provider answers or raises, and chat returns
chat_return(outcome) ==
  /\ Awaiting
  /\ svc' = [op |-> "chat", pc |-> "returned", message |-> svc.message,
             system_prompt |-> svc.system_prompt, provider |-> svc.provider,
             waited |-> svc.waited, outcome |-> outcome]
            @@ Chat(svc.message, svc.system_prompt, svc.provider, outcome)
  /\ UNCHANGED <<environ, ctor_fails, providers, config, development_mode,
                 llm_cache, made, callers, mgr>>
  /\ UNCHANGED vars

\* the caller takes the returned response
AwaitTakeResponse ==
  /\ svc # NoCall /\ svc.pc = "returned"
  /\ svc' = NoCall
  /\ UNCHANGED <<environ, ctor_fails, providers, config, development_mode,
                 llm_cache, made, callers, mgr>>
  /\ UNCHANGED vars

\* LLMService() in an environment where only the OpenAI and Google
\* credentials are set or unset
AwaitInit ==
  /\ now = 0 /\ analysis_sessions = <<>> /\ heap = <<>> /\ runners = <<>>
  /\ sched = <<>> /\ resp = NoResponse
  /\ environ \in {e \in [EnvVars -> {NoValue, LiveKey}] :
                    \A v \in EnvVars \ {"OPENAI_API_KEY", "GOOGLE_API_KEY"} :
                      e[v] = NoValue}
  /\ ctor_fails = {}
  /\ providers = InitializeProviders
  /\ svc = NoCall
  /\ config = DefaultConfig
  /\ development_mode = FALSE
  /\ llm_cache = <<>>
  /\ made = <<>>
  /\ callers = [c \in CallerIds |-> IdleCaller]
  /\ mgr = NoCall

AwaitNext ==
  \/ \E m \in AwaitMessages, sp \in SystemPrompts, p \in AwaitProviderArgs :
       chat_invoke(m, sp, p)
  \/ SecondPasses
  \/ \E o \in Outcomes : chat_return(o)
  \/ AwaitTakeResponse

AwaitSpec == AwaitInit /\ [][AwaitNext]_allVars

\* C27: a provider invocation is never pending for longer than the configured
\* timeout_seconds
C27_InvocationBounded ==
  Awaiting => svc.waited <= config.settings.timeout_seconds
====
